---- MODULE Spec2Model ----
(***************************************************************************)
(* Home-builder registration backend: POST /api/submit-form,               *)
(* GET /api/generate-reference and GET /api/health of backend/server.js     *)
(* together with services/sharepoint.js (province configuration, site      *)
(* lookup, folder ensure, file upload orchestration, list item creation),   *)
(* the three copies of config/auth.js (session acquisition) and the         *)
(* reference counter kept in counter.json.                                 *)
(*                                                                         *)
(* A request handler is an async function: everything between two awaits   *)
(* runs without interruption on the single event loop, so every action     *)
(* below is one such synchronous stretch, ending at the next await (whose   *)
(* outcome, a reply or a failure of the remote service, is chosen by the    *)
(* action that resumes the handler).  Requests are the ones the multipart   *)
(* middleware hands to the handler.                                        *)
(***************************************************************************)
EXTENDS Integers, Sequences, FiniteSets, TLC

\* ------------------------------------------------------------------ bounds
MaxAlloc == 3        \* reference numbers handed out in one behaviour
MaxFilesIn == 4      \* most files one request carries
MaxNow == 1          \* clock readings 0..MaxNow

\* --------------------------------------------------------------- constants
Seed == 10000
MaxFiles == 3

Slots == {1, 2}

NoValue == "undefined"     \* a text field the request does not carry
Undefined == <<"undefined">>   \* req.body.builderName when the field is not sent
NoRecord == [kind |-> "absent"]
Corrupt == [kind |-> "corrupt"]
NoField == [kind |-> "nofield"]
Stored(n) == [kind |-> "value", value |-> n]

\* --------------------------------------------------------- text and names
UpperCase == <<"A", "B", "C", "D", "E", "F", "G", "H", "I", "J", "K", "L", "M",
               "N", "O", "P", "Q", "R", "S", "T", "U", "V", "W", "X", "Y", "Z">>
LowerCase == <<"a", "b", "c", "d", "e", "f", "g", "h", "i", "j", "k", "l", "m",
               "n", "o", "p", "q", "r", "s", "t", "u", "v", "w", "x", "y", "z">>
Digits == {"0", "1", "2", "3", "4", "5", "6", "7", "8", "9"}

Range(f) == {f[i] : i \in DOMAIN f}

\* One character of builderName.replace(/[^a-z0-9]/gi, '_').toLowerCase()
SanitizeChar(c) ==
  IF c \in Range(LowerCase) \cup Digits THEN c
  ELSE IF c \in Range(UpperCase)
       THEN LowerCase[CHOOSE i \in DOMAIN UpperCase : UpperCase[i] = c]
       ELSE "_"

Sanitize(name) == [i \in DOMAIN name |-> SanitizeChar(name[i])]

\* `NHBRC${lastReferenceNumber}`
FormatRef(n) == <<"NHBRC", n>>

\* req.files: the first n of a fixed list of attachments (name, extension)
AllFiles == <<[base |-> "plan", ext |-> "pdf"],
              [base |-> "photo", ext |-> "jpg"],
              [base |-> "deed", ext |-> "pdf"],
              [base |-> "id", ext |-> "png"],
              [base |-> "extra", ext |-> "pdf"]>>
Files(n) == SubSeq(AllFiles, 1, n)

\* file.originalname.split('.').pop()
ExtOf(file) == file.ext

AcmeCo == <<"A", "c", "m", "e", " ", "C", "o">>
BuilderNames == {Undefined, AcmeCo}

\* -------------------------------------------------- province configuration
PROVINCE_MAPPING ==
  [p \in {"Eastern Cape", "Free State", "Gauteng", "KwaZulu Natal", "Limpopo",
          "Mpumalanga", "North West", "Northern Cape", "Western Cape"} |->
     CASE p = "Eastern Cape" -> [site |-> "EASTERN_CAPE", list |-> "EASTERN_CAPE"]
       [] p = "Free State" -> [site |-> "FREE_STATE", list |-> "FREE_STATE"]
       [] p = "Gauteng" -> [site |-> "GAUTENG", list |-> "GAUTENG"]
       [] p = "KwaZulu Natal" -> [site |-> "KWAZULU_NATAL", list |-> "KWAZULU_NATAL"]
       [] p = "Limpopo" -> [site |-> "LIMPOPO", list |-> "LIMPOPO"]
       [] p = "Mpumalanga" -> [site |-> "MPUMALANGA", list |-> "MPUMALANGA"]
       [] p = "North West" -> [site |-> "NORTH_WEST", list |-> "NORTH_WEST"]
       [] p = "Northern Cape" -> [site |-> "NORTHERN_CAPE", list |-> "NORTHERN_CAPE"]
       [] p = "Western Cape" -> [site |-> "WESTERN_CAPE", list |-> "WESTERN_CAPE"]]

\* names every object answers to besides its own keys (Object.prototype)
PrototypeNames == {"constructor", "toString"}

\* PROVINCE_MAPPING[province]: the entry, an inherited member (whose .site and
\* .list are undefined), or undefined
lookupProvince(province) ==
  IF province \in DOMAIN PROVINCE_MAPPING
  THEN [found |-> TRUE, site |-> PROVINCE_MAPPING[province].site,
        list |-> PROVINCE_MAPPING[province].list]
  ELSE IF province \in PrototypeNames
       THEN [found |-> TRUE, site |-> NoValue, list |-> NoValue]
       ELSE [found |-> FALSE, site |-> NoValue, list |-> NoValue]

\* the keys of process.env: credentials, and a site and a list per province
Credential(k) == <<"", k>>
SiteKey(k) == <<"SHAREPOINT_SITE_", k>>
ListKey(k) == <<"SHAREPOINT_LIST_", k>>

Credentials ==
  (Credential("TENANT_ID") :> "tenant") @@ (Credential("SHAREPOINT_TENANT_ID") :> "tenant")
  @@ (Credential("SHAREPOINT_CLIENT_ID") :> "client")
  @@ (Credential("SHAREPOINT_CLIENT_SECRET") :> "secret")

\* process.env as deployed: Gauteng configured, Limpopo with a site but no list
Env ==
  Credentials
  @@ (SiteKey("GAUTENG") :> "https://nhbrcsa.sharepoint.com/sites/gauteng")
  @@ (ListKey("GAUTENG") :> "GautengBuilders")
  @@ (SiteKey("LIMPOPO") :> "https://nhbrcsa.sharepoint.com/sites/limpopo")

\* process.env with every province configured
FullEnv ==
  Credentials
  @@ [k \in {SiteKey(PROVINCE_MAPPING[p].site) : p \in DOMAIN PROVINCE_MAPPING} |->
        "https://nhbrcsa.sharepoint.com/sites/province"]
  @@ [k \in {ListKey(PROVINCE_MAPPING[p].list) : p \in DOMAIN PROVINCE_MAPPING} |->
        "GautengBuilders"]

\* process.env with keys set to the empty string or left out
PartialEnv ==
  Env @@ (ListKey("FREE_STATE") :> "FreeStateBuilders")
      @@ (SiteKey("MPUMALANGA") :> "") @@ (ListKey("MPUMALANGA") :> "MpumalangaBuilders")
      @@ (SiteKey("WESTERN_CAPE") :> "https://nhbrcsa.sharepoint.com/sites/wc")
      @@ (ListKey("WESTERN_CAPE") :> "")

Without(e, k) == [x \in DOMAIN e \ {k} |-> e[x]]

\* configurations of the provinces
EnvChoices == {Env, FullEnv, PartialEnv}

\* configurations of the credentials: all set, one of them not set, and the
\* province of the health check without its site
AuthEnvs ==
  {FullEnv, Without(FullEnv, SiteKey("GAUTENG"))}
  \cup {Without(FullEnv, Credential(k)) :
          k \in {"TENANT_ID", "SHAREPOINT_TENANT_ID", "SHAREPOINT_CLIENT_ID",
                 "SHAREPOINT_CLIENT_SECRET"}}

VARIABLE env    \* process.env of the server process

EnvGet(k) == IF k \in DOMAIN env THEN env[k] ELSE NoValue

\* !x of a configuration value
unset(x) == x \in {NoValue, ""}

ConfigError(msg, province) == [ok |-> FALSE, error |-> <<msg, province>>]

\* a resolver that hands out whatever the environment holds for a known province
getSharePointConfig_SkipsKeys(province) ==
  LET provinceKey == lookupProvince(province)
  IN IF ~provinceKey.found
     THEN ConfigError("No SharePoint configuration found for province: ", province)
     ELSE [ok |-> TRUE, siteUrl |-> EnvGet(SiteKey(provinceKey.site)),
           listName |-> EnvGet(ListKey(provinceKey.list))]

\* getSharePointConfig(province): the configuration, or the error it throws
getSharePointConfig(province) ==
  LET provinceKey == lookupProvince(province)
  IN IF ~provinceKey.found
     THEN ConfigError("No SharePoint configuration found for province: ", province)
     ELSE LET siteUrl == EnvGet(SiteKey(provinceKey.site))
              listName == EnvGet(ListKey(provinceKey.list))
          IN IF unset(siteUrl) \/ unset(listName)
             THEN ConfigError("SharePoint configuration incomplete for province: ", province)
             ELSE [ok |-> TRUE, siteUrl |-> siteUrl, listName |-> listName]

\* ------------------------------------------------------- reference counter
\* initializeCounter that never reads counter.json
initializeCounter_IgnoresFile(rec) == Seed

\* initializeCounter(): counter.lastReferenceNumber || 10000, 10000 when the
\* file is absent or reading or parsing it throws
initializeCounter(rec) ==
  IF rec.kind = "value"
  THEN IF rec.value # 0 THEN rec.value ELSE Seed
  ELSE Seed

\* the counter left as it was
increment_Forgotten(n) == n

\* lastReferenceNumber++
increment(n) == n + 1

\* a check that only catches the empty string
provinceMissing_OnlyEmpty(province) == province = ""

\* !province
provinceMissing(province) == province \in {NoValue, ""}

WriteOutcomes == {"ok", "EACCES", "ENOSPC"}

\* a write that counts on from the number found in the file
saveCounter_CountsOn(rec, value, outcome) ==
  CASE outcome = "ok" -> IF rec.kind = "value" THEN Stored(rec.value + 1) ELSE Stored(value)
    [] outcome = "EACCES" -> rec
    [] outcome = "ENOSPC" -> Corrupt

\* saveCounter(value): the record after fs.writeFileSync; a failure is caught
\* and logged, leaving the old file (open refused) or a truncated one
saveCounter(rec, value, outcome) ==
  CASE outcome = "ok" -> Stored(value)
    [] outcome = "EACCES" -> rec
    [] outcome = "ENOSPC" -> Corrupt

VARIABLES
  lastReferenceNumber,   \* the in-memory counter of the server process
  counterFile,           \* the durable record counter.json
  now,                   \* the clock Date.now() reads
  sub,                   \* per request slot: the handler's position and locals
  handedOut,             \* history: numbers returned to callers, in order
  boot,                  \* history: the last startup (record found, numbers handed out before it)
  drive,                 \* the site's document library: the folders under 'D1 Documents'
  ensured,               \* history: what the createFolder calls returned
  authModule,            \* which copy of config/auth.js the server was deployed with
  health,                \* the GET /api/health request: position, calls, answer
  peer                   \* a second server process on the same counter.json: its counter, its numbers

vars == <<env, authModule, lastReferenceNumber, counterFile, now, sub, handedOut, boot,
          drive, ensured, health, peer>>

NoResponse == [status |-> 0]

\* req.body beside province and builderName: the fields named like the
\* handler's own values, when the client sends them
NoExtras == <<>>
ForgedRef == <<"NHBRC", 1>>
ForgedUrls == <<[folder |-> <<"Elsewhere">>,
                 name |-> [sanitizedName |-> <<"x">>, referenceNumber |-> ForgedRef,
                           stamp |-> 0, ext |-> "exe"]]>>
Extras ==
  {NoExtras, [referenceNumber |-> ForgedRef], [uploadedFileUrls |-> ForgedUrls],
   [referenceNumber |-> ForgedRef, uploadedFileUrls |-> ForgedUrls]}

\* a spread written after the handler's values: the body's fields win
spread_BodyWins(body, own) == body @@ own

\* { ...req.body, referenceNumber, ... }: the fields written after the spread
\* replace those of the body
spread(body, own) == own @@ body

Idle ==
  [pc |-> "idle", province |-> NoValue, builderName |-> Undefined, nfiles |-> 0,
   referenceNumber |-> <<>>, folder |-> <<>>, idx |-> 0, pending |-> <<>>,
   urls |-> <<>>, results |-> <<>>, calls |-> <<>>, ensure |-> "none",
   item |-> <<>>, resp |-> NoResponse,
   probe |-> 0, created |-> <<>>, lists |-> <<>>, listId |-> "", failed |-> {},
   session |-> "none", bearer |-> "", authError |-> <<>>, body |-> NoExtras,
   items |-> <<>>]

HealthIdle ==
  [pc |-> "idle", calls |-> <<>>, resp |-> NoResponse, failed |-> {},
   session |-> "none", bearer |-> "", authError |-> <<>>]

\* the three copies of config/auth.js in the repository; backend/server.js
\* imports './config/auth.js'
AuthModules == {"backend/backend/config/auth.js", "backend/config/auth.js", "config/auth.js"}
ImportedAuth == "backend/config/auth.js"

InitRecords == {NoRecord, Corrupt, NoField} \cup {Stored(n) : n \in Seed..(Seed + 1)}

Startup(rec, len) == [record |-> rec, len |-> len]

\* the process after startup, nothing requested yet
InitProcess ==
  /\ drive = {}
  /\ ensured = {}
  /\ health = HealthIdle
  /\ counterFile \in InitRecords
  /\ lastReferenceNumber = initializeCounter(counterFile)
  /\ now = 0
  /\ sub = [s \in Slots |-> Idle]
  /\ handedOut = <<>>
  /\ boot = Startup(counterFile, 0)
  /\ peer = [lastReferenceNumber |-> initializeCounter(counterFile), handedOut |-> <<>>]

Init ==
  /\ env = Env
  /\ authModule = ImportedAuth
  /\ InitProcess

\* ------------------------------------------------------------ the handlers
\* client.api(...).get/post/put, fetch: a call is issued when the handler
\* reaches its await
Issue(r, call, pc) == [r EXCEPT !.calls = Append(@, call), !.pc = pc]

\* res.status(code).json(body): the handler ends
Respond(r, body) == [r EXCEPT !.pc = "done", !.resp = body]

\* a catch that logs the error and sends nothing
Fail500_OnlyLogs(r, message) == [r EXCEPT !.pc = "done"]

\* catch (err) { res.status(500).json({ success: false, error: err.message }) }
Fail500(r, message) ==
  Respond(r, [status |-> 500, success |-> FALSE, error |-> message])

TimesToCome == now..MaxNow

\* history: a remote call of the request failed
noteFailure(r, call) == [r EXCEPT !.failed = @ \cup {call}]

\* GET /api/generate-reference
GenerateReference(outcome) ==
  /\ Len(handedOut) < MaxAlloc
  /\ lastReferenceNumber' = increment(lastReferenceNumber)
  /\ counterFile' = saveCounter(counterFile, lastReferenceNumber', outcome)
  /\ handedOut' = Append(handedOut, FormatRef(lastReferenceNumber'))
  /\ UNCHANGED <<now, sub, boot>>
  /\ UNCHANGED <<env, authModule, peer, drive, ensured, health>>

\* getSiteId(client, province) up to its await: getSharePointConfig throws, or
\* the site lookup is issued and the handler waits at `pc`
getSiteId(r, pc) ==
  LET cfg == getSharePointConfig(r.province)
  IN IF cfg.ok THEN Issue(r, "site", pc) ELSE Fail500(r, cfg.error)

\* !process.env.X of each of the keys
missing(keys) == \E k \in keys : unset(EnvGet(Credential(k)))

\* throw new Error(message) out of getGraphClient
authFailed(r, message) == [r EXCEPT !.session = "failed", !.authError = message]

\* getGraphClient() up to its await, by the copy deployed: the first copy checks
\* the three credentials and requests a token; the second requests a token
\* without any check; the third checks (under another tenant key) and returns a
\* client that fetches its token with the first Graph call
getGraphClient(r) ==
  CASE authModule = "backend/backend/config/auth.js" ->
         IF missing({"TENANT_ID", "SHAREPOINT_CLIENT_ID", "SHAREPOINT_CLIENT_SECRET"})
         THEN authFailed(r, <<"Missing SharePoint authentication environment variables">>)
         ELSE Issue(r, "token", "token")
    [] authModule = "backend/config/auth.js" -> Issue(r, "token", "token")
    [] authModule = "config/auth.js" ->
         IF missing({"SHAREPOINT_TENANT_ID", "SHAREPOINT_CLIENT_ID", "SHAREPOINT_CLIENT_SECRET"})
         THEN authFailed(r, <<"Missing SharePoint authentication credentials in environment variables">>)
         ELSE [r EXCEPT !.session = "acquired", !.bearer = "deferred"]

\* what the token endpoint may answer: a token, a non-success status, a success
\* without access_token
TokenOutcomes == {"token", "rejected", "empty"}

\* the identity endpoint issues a token only for a request that names the
\* tenant, the client and its secret
mayAnswer(outcome) ==
  outcome = "rejected"
    \/ ~missing({"TENANT_ID", "SHAREPOINT_CLIENT_ID", "SHAREPOINT_CLIENT_SECRET"})

\* getGraphClient() after the await of the token: the first copy rejects a
\* failed request and an empty token; the second rejects a failed request only
\* and builds the client around whatever access_token is
tokenAnswered(r, outcome) ==
  LET rejected == "Failed to get access token"
  IN CASE outcome = "token" -> [r EXCEPT !.session = "acquired", !.bearer = "token"]
       [] outcome = "rejected" ->
            authFailed(noteFailure(r, "token"),
                       IF authModule = "backend/backend/config/auth.js"
                       THEN <<"Authentication failed: ", rejected>> ELSE <<rejected>>)
       [] outcome = "empty" ->
            IF authModule = "backend/backend/config/auth.js"
            THEN authFailed(noteFailure(r, "token"), <<"Received empty access token">>)
            ELSE [r EXCEPT !.session = "acquired", !.bearer = ""]

\* const client = await getGraphClient() of the submit handler, once it is
\* settled: thrown to the handler's catch, or on with getSiteId(client, province)
afterClient(r) ==
  CASE r.session = "failed" -> Fail500(r, r.authError)
    [] r.session = "acquired" -> getSiteId(r, "site")
    [] OTHER -> r

\* GET /api/generate-reference served by the second process, which has its own
\* lastReferenceNumber and writes the same counter.json
PeerGenerateReference(outcome) ==
  /\ Len(peer.handedOut) < MaxAlloc
  /\ LET n == increment(peer.lastReferenceNumber)
     IN /\ peer' = [lastReferenceNumber |-> n,
                    handedOut |-> Append(peer.handedOut, FormatRef(n))]
        /\ counterFile' = saveCounter(counterFile, n, outcome)
  /\ UNCHANGED <<lastReferenceNumber, now, sub, handedOut, boot>>
  /\ UNCHANGED <<env, authModule, drive, ensured, health>>

\* POST /api/submit-form, from the start of the handler to await getGraphClient()
SubmitForm(s, province, builderName, nfiles, outcome, extras) ==
  /\ sub[s].pc \in {"idle", "done"}
  /\ LET req == [Idle EXCEPT !.province = province, !.builderName = builderName,
                             !.nfiles = nfiles, !.body = extras]
     IN IF provinceMissing(province)
        THEN /\ sub' = [sub EXCEPT ![s] =
                          Respond(req, [status |-> 400, success |-> FALSE,
                                        error |-> "Province is required"])]
             /\ UNCHANGED <<lastReferenceNumber, counterFile, handedOut>>
        ELSE /\ Len(handedOut) < MaxAlloc
             /\ lastReferenceNumber' = increment(lastReferenceNumber)
             /\ counterFile' = saveCounter(counterFile, lastReferenceNumber', outcome)
             /\ handedOut' = Append(handedOut, FormatRef(lastReferenceNumber'))
             /\ sub' = [sub EXCEPT ![s] =
                          afterClient(getGraphClient(
                            [req EXCEPT !.referenceNumber = FormatRef(lastReferenceNumber')]))]
  /\ UNCHANGED <<now, boot>>
  /\ UNCHANGED <<env, authModule, peer, drive, ensured, health>>

\* await getGraphClient() returns or throws; then getSiteId(client, province)
GraphClientReply(s, outcome) ==
  /\ sub[s].pc = "token"
  /\ mayAnswer(outcome)
  /\ sub' = [sub EXCEPT ![s] = afterClient(tokenAnswered(sub[s], outcome))]
  /\ UNCHANGED <<lastReferenceNumber, counterFile, now, handedOut, boot>>
  /\ UNCHANGED <<env, authModule, peer, drive, ensured, health>>

\* await getSiteId(client, province) in the handler returns or throws (a client
\* built around an empty token cannot succeed); then processFileUploads starts
\* with its own getSiteId
SiteReply(s, ok) ==
  /\ sub[s].pc = "site"
  /\ ok => sub[s].bearer # ""
  /\ sub' = [sub EXCEPT ![s] =
               LET r == sub[s] IN
               IF ok THEN getSiteId(r, "pfu_site")
               ELSE Fail500(noteFailure(r, "site"), "site lookup failed")]
  /\ UNCHANGED <<lastReferenceNumber, counterFile, now, handedOut, boot>>
  /\ UNCHANGED <<env, authModule, peer, drive, ensured, health>>

\* ------------------------------------------------- folders, names and URLs
baseFolder == "D1 Documents"
defaultFolder == <<"Shared Documents">>

\* `${x}` of a text value: an undefined one prints as "undefined"
Text(x) == IF x = Undefined THEN <<"u", "n", "d", "e", "f", "i", "n", "e", "d">> ELSE x

\* createFolder returns `${cleanParentPath}/${folderName}`
FolderPath(parent, folderName) == <<parent, Text(folderName)>>

\* uploadFileToSharePoint: folderPath with a doubled 'Shared Documents' collapsed
cleanFolderPath(path) ==
  IF Len(path) >= 2 /\ path[1] = "Shared Documents" /\ path[2] = "Shared Documents"
  THEN Tail(path) ELSE path

\* `${sanitizedName}_${formData.referenceNumber}_${Date.now()}.${ext}`
newFileName(builderName, referenceNumber, t, file) ==
  [sanitizedName |-> Sanitize(builderName), referenceNumber |-> referenceNumber,
   stamp |-> t, ext |-> ExtOf(file)]

\* response.webUrl of the drive item stored at uploadPath
webUrl(folder, fileName) == [folder |-> cleanFolderPath(folder), name |-> fileName]

\* ------------------------------------------------------- saveToSharePoint
\* saveToSharePoint up to its first await: getSharePointConfig, then getSiteId
saveToSharePoint(r) == getSiteId(r, "save_site")

\* --------------------------------------------------- processFileUploads
\* history: what became of one file of the request
Uploaded(url) == [ok |-> TRUE, why |-> "", url |-> url]
NotUploaded(why) == [ok |-> FALSE, why |-> why]

\* a loop that leaves the last file out
uploadLoop_SkipsLast(r, t) ==
  IF r.idx >= r.nfiles
  THEN saveToSharePoint(r)
  ELSE IF r.builderName = Undefined
       THEN saveToSharePoint(
              [r EXCEPT !.results = @ \o [i \in 1..(r.nfiles - r.idx + 1) |->
                                                 NotUploaded("TypeError")],
                        !.idx = r.nfiles + 1])
       ELSE Issue([r EXCEPT !.pending =
                     newFileName(r.builderName, r.referenceNumber, t, Files(r.nfiles)[r.idx])],
                  "upload", "upload")

\* One turn of `for (const file of files)` up to the await of the upload: the
\* file name is built (a TypeError when builderName is undefined, caught per
\* file without any call being made) and the upload is issued; after the last
\* file the URLs are returned and saveToSharePoint starts
uploadLoop(r, t) ==
  IF r.idx > r.nfiles
  THEN saveToSharePoint(r)
  ELSE IF r.builderName = Undefined
       THEN saveToSharePoint(
              [r EXCEPT !.results = @ \o [i \in 1..(r.nfiles - r.idx + 1) |->
                                                 NotUploaded("TypeError")],
                        !.idx = r.nfiles + 1])
       ELSE LET formData == spread(r.body, [referenceNumber |-> r.referenceNumber])
            IN Issue([r EXCEPT !.pending =
                        newFileName(r.builderName, formData.referenceNumber, t,
                                    Files(r.nfiles)[r.idx])],
                     "upload", "upload")

\* the try block after createFolder returned
uploadInto(r, folder, t) ==
  uploadLoop([r EXCEPT !.folder = folder, !.idx = 1, !.ensure = "ensured"], t)

\* catch (folderError) that throws the error on to the handler
fallback_Rethrows(r, t) == Fail500([r EXCEPT !.ensure = "failed"], "folder error")

\* catch (folderError): the same loop into 'Shared Documents'
fallback(r, t) ==
  uploadLoop([r EXCEPT !.folder = defaultFolder, !.idx = 1, !.ensure = "failed"], t)

\* processFileUploads without the empty case: the folder is ensured first
checkFiles_AlwaysEnsures(r) ==
  IF r.nfiles > MaxFiles
  THEN Fail500(r, "Maximum of 3 files allowed per submission")
  ELSE Issue(r, "probe", "probe")

\* processFileUploads once it has the site: more than three files throw, no
\* files return [] at once, otherwise createFolder starts with its probe
checkFiles(r) ==
  IF r.nfiles > MaxFiles
  THEN Fail500(r, "Maximum of 3 files allowed per submission")
  ELSE IF r.nfiles = 0 THEN saveToSharePoint(r)
       ELSE Issue(r, "probe", "probe")

\* await getSiteId(client, province) of processFileUploads returns or throws;
\* then the file limit, the empty case, and createFolder up to its probe
PfuSiteReply(s, ok) ==
  /\ sub[s].pc = "pfu_site"
  /\ sub' = [sub EXCEPT ![s] =
               LET r == sub[s] IN
               IF ~ok THEN Fail500(noteFailure(r, "site"), "site lookup failed")
               ELSE checkFiles(r)]
  /\ UNCHANGED <<lastReferenceNumber, counterFile, now, handedOut, boot>>
  /\ UNCHANGED <<env, authModule, peer, drive, ensured, health>>

ProbeOutcomes == {200, 404, 403}

\* the answer of a library that makes no folder when the name is taken
NoFolder == <<>>

SiblingNumbers == <<"1", "2", "3">>

\* a library that refuses a name that is taken (conflict behaviour "fail")
nameGiven_Conflict(name, folders) ==
  IF name \notin folders THEN name ELSE NoFolder

\* the name the library gives a new folder: the one asked for, or with
\* conflict behaviour "rename" a free sibling name when that one is taken
nameGiven(name, folders) ==
  IF name \notin folders THEN name
  ELSE name \o <<" ", SiblingNumbers[
         CHOOSE k \in DOMAIN SiblingNumbers :
           /\ (name \o <<" ", SiblingNumbers[k]>>) \notin folders
           /\ \A j \in 1..(k - 1) : (name \o <<" ", SiblingNumbers[j]>>) \in folders]>>

\* a createFolder that asks for the creation whether or not the probe found
\* the folder
afterProbe_AlwaysCreates(r, status, t) ==
  CASE status \in {200, 404} -> Issue(r, "create", "create")
    [] OTHER -> fallback(noteFailure(r, "probe"), t)

\* a createFolder that asks for the creation after any failure of the probe
afterProbe_CreatesOnAnyError(r, status, t) ==
  CASE status = 200 -> uploadInto(r, FolderPath(baseFolder, r.builderName), t)
    [] OTHER -> Issue(r, "create", "create")

\* createFolder after the probe: found (the path is returned and the uploads
\* start), 404 (the creation call is issued), any other failure (thrown, and
\* caught by processFileUploads)
afterProbe(r, status, t) ==
  CASE status = 200 -> uploadInto(r, FolderPath(baseFolder, r.builderName), t)
    [] status = 404 -> Issue(r, "create", "create")
    [] OTHER -> fallback(noteFailure(r, "probe"), t)

\* history: createFolder returned `path` for `name`, having created the folder
\* or found it, as the first call to return for that name or after another
Ensure(name, path, created) ==
  [name |-> name, path |-> path, created |-> created,
   again |-> \E e \in ensured : e.name = name]

\* createFolder: the probe returns (2xx, the folder is there), fails with 404
\* (it is not) or fails otherwise
ProbeReply(s, status, t) ==
  /\ sub[s].pc = "probe"
  /\ t \in TimesToCome
  /\ status = 200 => Text(sub[s].builderName) \in drive
  /\ status = 404 => Text(sub[s].builderName) \notin drive
  /\ sub' = [sub EXCEPT ![s] = afterProbe([sub[s] EXCEPT !.probe = status], status, t)]
  /\ ensured' = IF sub'[s].ensure = "ensured"
                THEN ensured \cup {Ensure(Text(sub[s].builderName), sub'[s].folder, FALSE)}
                ELSE ensured
  /\ now' = IF sub'[s].pc = "upload" THEN t ELSE now
  /\ UNCHANGED <<lastReferenceNumber, counterFile, handedOut, boot>>
  /\ UNCHANGED <<env, authModule, peer, health, drive>>

\* createFolder after the creation call: the path asked for is returned, or the
\* error (the call failed, or the library refused the name) is thrown
afterCreate(r, ok, given, t) ==
  IF ok /\ given # NoFolder
  THEN uploadInto([r EXCEPT !.created = given], FolderPath(baseFolder, r.builderName), t)
  ELSE fallback(noteFailure(r, IF ok THEN "conflict" ELSE "create"), t)

\* createFolder: the creation call (conflict behaviour "rename") returns with
\* the folder made, or throws
CreateReply(s, ok, t) ==
  /\ sub[s].pc = "create"
  /\ t \in TimesToCome
  /\ LET given == nameGiven(Text(sub[s].builderName), drive)
     IN /\ sub' = [sub EXCEPT ![s] = afterCreate(sub[s], ok, given, t)]
        /\ drive' = IF ok /\ given # NoFolder THEN drive \cup {given} ELSE drive
  /\ ensured' = IF sub'[s].ensure = "ensured"
                THEN ensured \cup {Ensure(Text(sub[s].builderName), sub'[s].folder, TRUE)}
                ELSE ensured
  /\ now' = IF sub'[s].pc = "upload" THEN t ELSE now
  /\ UNCHANGED <<lastReferenceNumber, counterFile, handedOut, boot>>
  /\ UNCHANGED <<env, authModule, peer, health>>

\* a loop without its own catch: an upload that fails in the builder's folder
\* reaches catch (folderError) and the files are uploaded again from the first
afterUpload_ThrowsToOuter(r, ok) ==
  IF ~ok /\ r.ensure = "ensured"
  THEN [r EXCEPT !.results = Append(@, NotUploaded("upload failed")),
                 !.folder = defaultFolder, !.idx = 1, !.ensure = "failed",
                 !.pending = <<>>]
  ELSE [r EXCEPT !.urls = IF ok THEN Append(@, webUrl(r.folder, r.pending)) ELSE @,
                 !.results = Append(@, IF ok THEN Uploaded(webUrl(r.folder, r.pending))
                                             ELSE NotUploaded("upload failed")),
                 !.idx = @ + 1,
                 !.pending = <<>>]

\* a loop that tries a failed upload again
afterUpload_Retries(r, ok) ==
  [r EXCEPT !.urls = IF ok THEN Append(@, webUrl(r.folder, r.pending)) ELSE @,
            !.results = IF ok THEN Append(@, Uploaded(webUrl(r.folder, r.pending))) ELSE @,
            !.idx = IF ok THEN @ + 1 ELSE @,
            !.pending = <<>>]

\* a loop that a failed upload ends
afterUpload_StopsAtFailure(r, ok) ==
  [r EXCEPT !.urls = IF ok THEN Append(@, webUrl(r.folder, r.pending)) ELSE @,
            !.results = Append(@, IF ok THEN Uploaded(webUrl(r.folder, r.pending))
                                        ELSE NotUploaded("upload failed")),
            !.idx = IF ok THEN @ + 1 ELSE r.nfiles + 1,
            !.pending = <<>>]

\* What the loop body does with the outcome of one upload
afterUpload(r, ok) ==
  [r EXCEPT !.urls = IF ok THEN Append(@, webUrl(r.folder, r.pending)) ELSE @,
            !.results = Append(@, IF ok THEN Uploaded(webUrl(r.folder, r.pending))
                                        ELSE NotUploaded("upload failed")),
            !.idx = @ + 1,
            !.pending = <<>>]

\* await uploadFileToSharePoint(...) returns the URL or throws (caught per
\* file); the loop goes on with the next file
UploadReply(s, ok, t) ==
  /\ sub[s].pc = "upload"
  /\ t \in TimesToCome
  /\ sub' = [sub EXCEPT ![s] =
               uploadLoop(afterUpload(IF ok THEN sub[s] ELSE noteFailure(sub[s], "upload"),
                                      ok), t)]
  /\ now' = IF sub'[s].pc = "upload" THEN t ELSE now
  /\ UNCHANGED <<lastReferenceNumber, counterFile, handedOut, boot>>
  /\ UNCHANGED <<env, authModule, peer, drive, ensured, health>>

\* saveToSharePoint: await getSiteId returns or throws; the lists are requested
SaveSiteReply(s, ok) ==
  /\ sub[s].pc = "save_site"
  /\ sub' = [sub EXCEPT ![s] =
               LET r == sub[s] IN
               IF ok THEN Issue(r, "lists", "lists")
               ELSE Fail500(noteFailure(r, "site"), "site lookup failed")]
  /\ UNCHANGED <<lastReferenceNumber, counterFile, now, handedOut, boot>>
  /\ UNCHANGED <<env, authModule, peer, drive, ensured, health>>

\* lists.value as the site may return it
ListCatalogues ==
  { <<[name |-> "gautengbuilders", displayName |-> "GautengBuilders", id |-> "L2"]>>,
    <<[name |-> "Documents", displayName |-> "GautengBuilders", id |-> "L3"],
      [name |-> "GautengBuilders", displayName |-> "Builders", id |-> "L4"]>> }

\* a lookup that also accepts the name the list is displayed under
findList_ByDisplayName(lists, listName) ==
  {i \in DOMAIN lists : lists[i].name = listName \/ lists[i].displayName = listName}

\* lists.value.find(l => l.name === listName)
findList(lists, listName) == {i \in DOMAIN lists : lists[i].name = listName}

\* the fields of the new list item
\* uploadedFileUrls.join(', ')
Join(urls) == [i \in DOMAIN urls |-> [sep |-> IF i = 1 THEN "" ELSE ", ", url |-> urls[i]]]

\* an item that always carries the Attachments field
itemFields_AlwaysAttachments(r) ==
  [Title |-> r.builderName, ReferenceNumber |-> r.referenceNumber,
   Province |-> r.province, Attachments |-> Join(r.urls)]

\* the fields of the new list item (the text fields the model carries)
itemFields(r) ==
  LET formData == spread(r.body, [referenceNumber |-> r.referenceNumber,
                                  uploadedFileUrls |-> r.urls])
      fields == [Title |-> r.builderName, ReferenceNumber |-> formData.referenceNumber,
                 Province |-> r.province]
  IN IF Len(formData.uploadedFileUrls) > 0
     THEN fields @@ [Attachments |-> Join(formData.uploadedFileUrls)]
     ELSE fields

\* saveToSharePoint once lists.value is there: the target list is found by its
\* internal name and the item is posted to it, or the error names the lists
afterLists(r, lists) ==
  LET found == findList(lists, getSharePointConfig(r.province).listName)
  IN IF found = {}
     THEN Fail500(r, <<"List not found", [i \in DOMAIN lists |-> lists[i].name]>>)
     ELSE Issue([r EXCEPT !.item = itemFields(r),
                          !.listId = lists[CHOOSE i \in found : \A j \in found : i <= j].id],
                "item", "item")

\* saveToSharePoint: the lists arrive (or the call throws); the target list is
\* looked up by internal name and the item is posted
ListsReply(s, ok, lists) ==
  /\ sub[s].pc = "lists"
  /\ sub' = [sub EXCEPT ![s] =
               LET r == sub[s] IN
               IF ~ok THEN Fail500(noteFailure(r, "lists"), "lists lookup failed")
               ELSE afterLists([r EXCEPT !.lists = lists], lists)]
  /\ UNCHANGED <<lastReferenceNumber, counterFile, now, handedOut, boot>>
  /\ UNCHANGED <<env, authModule, peer, drive, ensured, health>>

\* a handler that reports success whatever became of the post
afterItem_SwallowsError(r, ok) ==
  Respond(IF ok THEN [r EXCEPT !.items = Append(@, r.item)] ELSE noteFailure(r, "item"),
          [status |-> 200, success |-> TRUE,
           referenceNumber |-> r.referenceNumber,
           uploadedFileUrls |-> r.urls,
           province |-> r.province])

\* the post of the item returned (the list then holds the item posted) and the
\* handler answers with success, or it threw (no item was made) and the
\* handler answers 500
afterItem(r, ok) ==
  IF ok
  THEN Respond([r EXCEPT !.items = Append(@, r.item)],
               [status |-> 200, success |-> TRUE,
                referenceNumber |-> r.referenceNumber,
                uploadedFileUrls |-> r.urls,
                province |-> r.province])
  ELSE Fail500(noteFailure(r, "item"), "item creation failed")

\* saveToSharePoint: the item is created or the post throws; the handler answers
ItemReply(s, ok) ==
  /\ sub[s].pc = "item"
  /\ sub' = [sub EXCEPT ![s] = afterItem(sub[s], ok)]
  /\ UNCHANGED <<lastReferenceNumber, counterFile, now, handedOut, boot>>
  /\ UNCHANGED <<env, authModule, peer, drive, ensured, health>>

\* The process is stopped and started again: requests in flight are lost and
\* the counter is loaded from counter.json
Restart ==
  /\ lastReferenceNumber' = initializeCounter(counterFile)
  /\ sub' = [s \in Slots |-> Idle]
  /\ health' = HealthIdle
  /\ boot' = Startup(counterFile, Len(handedOut))
  /\ UNCHANGED <<counterFile, now, handedOut>>
  /\ UNCHANGED <<env, authModule, peer, drive, ensured>>

\* ------------------------------------------------------------ /api/health
\* res.json({ status: 'Backend is running', sharepointStatus, ... })
healthReport(h, sharepointStatus) ==
  Respond(h, [status |-> 200, state |-> "Backend is running",
              sharepointStatus |-> sharepointStatus])

\* a health check that answers a SharePoint failure with an error status
healthFailed_Answers500(h, message) ==
  Respond(h, [status |-> 500, state |-> "Error", sharepointStatus |-> <<message>>])

\* the inner catch: sharepointStatus = `SharePoint connection failed: ${err.message}`
healthFailed(h, message) ==
  healthReport(h, <<"SharePoint connection failed: ", message>>)

\* the inner try once getGraphClient() is settled: caught, or getSiteId(client,
\* 'Gauteng') up to its await
healthAfterClient(h) ==
  CASE h.session = "failed" -> healthFailed(h, h.authError)
    [] h.session = "acquired" ->
         LET cfg == getSharePointConfig("Gauteng")
         IN IF cfg.ok THEN Issue(h, "site", "site") ELSE healthFailed(h, cfg.error)
    [] OTHER -> h

\* GET /api/health up to its first await (or to its answer)
Health ==
  /\ health.pc \in {"idle", "done"}
  /\ health' = IF missing({"SHAREPOINT_CLIENT_ID", "SHAREPOINT_CLIENT_SECRET"})
               THEN healthReport(HealthIdle, <<"Not configured">>)
               ELSE healthAfterClient(getGraphClient(HealthIdle))
  /\ UNCHANGED <<env, authModule, peer, drive, ensured>>
  /\ UNCHANGED <<lastReferenceNumber, counterFile, now, sub, handedOut, boot>>

\* /api/health: await getGraphClient() returns or throws
HealthTokenReply(outcome) ==
  /\ health.pc = "token"
  /\ mayAnswer(outcome)
  /\ health' = healthAfterClient(tokenAnswered(health, outcome))
  /\ UNCHANGED <<env, authModule, peer, drive, ensured>>
  /\ UNCHANGED <<lastReferenceNumber, counterFile, now, sub, handedOut, boot>>

\* /api/health: await getSiteId(client, 'Gauteng') returns or throws
HealthSiteReply(ok) ==
  /\ health.pc = "site"
  /\ ok => health.bearer # ""
  /\ health' = IF ok THEN healthReport(health, <<"Connected to SharePoint">>)
               ELSE healthFailed(noteFailure(health, "site"), <<"site lookup failed">>)
  /\ UNCHANGED <<env, authModule, peer, drive, ensured>>
  /\ UNCHANGED <<lastReferenceNumber, counterFile, now, sub, handedOut, boot>>

ProvinceInputs == {NoValue, "", "Gauteng", "Limpopo", "Atlantis"}

\* the steps of a request in flight
Replies(s) ==
  \/ \E o \in TokenOutcomes : GraphClientReply(s, o)
  \/ \E ok \in BOOLEAN : SiteReply(s, ok)
  \/ \E ok \in BOOLEAN : PfuSiteReply(s, ok)
  \/ \E st \in ProbeOutcomes, t \in 0..MaxNow : ProbeReply(s, st, t)
  \/ \E ok \in BOOLEAN, t \in 0..MaxNow : CreateReply(s, ok, t)
  \/ \E ok \in BOOLEAN, t \in 0..MaxNow : UploadReply(s, ok, t)
  \/ \E ok \in BOOLEAN : SaveSiteReply(s, ok)
  \/ \E ok \in BOOLEAN, l \in ListCatalogues : ListsReply(s, ok, l)
  \/ \E ok \in BOOLEAN : ItemReply(s, ok)

\* One request at a time, with every input; the counter file is always written
Next ==
  \/ GenerateReference("ok")
  \/ \E p \in ProvinceInputs, b \in BuilderNames, n \in 0..MaxFilesIn :
       SubmitForm(1, p, b, n, "ok", NoExtras)
  \/ Replies(1)

\* a process started without counter.json or from a stored number
InitServing == Init /\ counterFile \in {NoRecord, Stored(Seed + 1)}

Spec == InitServing /\ [][Next]_vars

\* The allocator: writes of counter.json may fail and the process may restart
NextAlloc ==
  \/ \E o \in WriteOutcomes : GenerateReference(o)
  \/ \E p \in {NoValue, "Gauteng"}, n \in 0..1, o \in WriteOutcomes :
       SubmitForm(1, p, AcmeCo, n, o, NoExtras)
  \/ Replies(1)
  \/ Restart

SpecAlloc == Init /\ [][NextAlloc]_vars

\* Requests in flight together in one process, one per slot, with calls of
\* /api/generate-reference in between
NextConc ==
  \/ GenerateReference("ok")
  \/ \E s \in Slots, p \in {NoValue, "Gauteng"}, n \in 0..1 :
       sub[s].pc = "idle" /\ SubmitForm(s, p, AcmeCo, n, "ok", NoExtras)
  \/ \E s \in Slots : Replies(s)

InitConc == InitServing

SpecConc == InitConc /\ [][NextConc]_vars

\* what a client may send as province: the nine names, and values outside them
ConfigInputs ==
  DOMAIN PROVINCE_MAPPING \cup {NoValue, "Atlantis", "gauteng", "GAUTENG", "constructor"}

\* Every configuration of the provinces, every province a client may name
NextConfig ==
  \/ \E p \in ConfigInputs, n \in 0..1 : SubmitForm(1, p, AcmeCo, n, "ok", NoExtras)
  \/ Replies(1)

InitConfig ==
  /\ env \in EnvChoices
  /\ authModule = ImportedAuth
  /\ InitProcess
  /\ counterFile = NoRecord

SpecConfig == InitConfig /\ [][NextConfig]_vars

\* Every copy of the auth module under every configuration of the credentials,
\* the health check beside the submissions
NextAuth ==
  \/ \E p \in {NoValue, "Gauteng"}, n \in 0..1 : SubmitForm(1, p, AcmeCo, n, "ok", NoExtras)
  \/ Replies(1)
  \/ Health
  \/ \E o \in TokenOutcomes : HealthTokenReply(o)
  \/ \E ok \in BOOLEAN : HealthSiteReply(ok)

InitAuth ==
  /\ env \in AuthEnvs
  /\ authModule \in AuthModules
  /\ InitProcess
  /\ counterFile = NoRecord

SpecAuth == InitAuth /\ [][NextAuth]_vars

\* Two server processes started on the same counter.json, each serving
\* /api/generate-reference
NextProcs ==
  \/ \E o \in WriteOutcomes : GenerateReference(o)
  \/ \E o \in WriteOutcomes : PeerGenerateReference(o)

SpecProcs == Init /\ [][NextProcs]_vars

\* Submissions whose body carries fields named referenceNumber and
\* uploadedFileUrls
NextForm ==
  \/ \E n \in 0..2, e \in Extras : SubmitForm(1, "Gauteng", AcmeCo, n, "ok", e)
  \/ Replies(1)

SpecForm == InitServing /\ [][NextForm]_vars

\* Two submissions in flight together; every remote call of the second
\* returns or fails in the end, those of the first may never return
NextLive ==
  \/ \E s \in Slots, p \in {NoValue, "Gauteng"}, n \in 0..1 :
       sub[s].pc = "idle" /\ SubmitForm(s, p, AcmeCo, n, "ok", NoExtras)
  \/ \E s \in Slots : Replies(s)

SpecLive == InitServing /\ [][NextLive]_vars /\ WF_vars(Replies(2))
\* ------------------------------------------------------------------ claims
Responded(s) == sub[s].resp.status # 0
AfterUploads(s) == sub[s].pc \in {"save_site", "lists", "item", "done"}
Count(seq, x) == Cardinality({i \in DOMAIN seq : seq[i] = x})

\* the URLs of the uploads that succeeded, in the order of the files
UrlsOf(results) ==
  LET oks == SelectSeq(results, LAMBDA x : x.ok)
  IN [i \in DOMAIN oks |-> oks[i].url]

\* processFileUploads returned to the handler: saveToSharePoint was started
ReachedSave(s) == Count(sub[s].calls, "site") = 3

\* C1: when the folder ensure succeeded (at most 3 files), the URL list is
\* exactly the URLs of the uploads that succeeded, in file order; a failed
\* upload does not stop the loop (every file gets its turn) nor the call (the
\* handler goes on to saveToSharePoint), and a success answer carries that list
C1_PartialFailureKeepsOrder ==
  \A s \in Slots :
    sub[s].ensure = "ensured" =>
      /\ sub[s].nfiles <= MaxFiles
      /\ sub[s].urls = UrlsOf(sub[s].results)
      /\ sub[s].pc = "upload" => Len(sub[s].results) = sub[s].idx - 1
      /\ (AfterUploads(s) \/ sub[s].pc = "done") =>
           /\ Len(sub[s].results) = sub[s].nfiles
           /\ ReachedSave(s)
      /\ sub[s].resp.status = 200 =>
           sub[s].resp.uploadedFileUrls = UrlsOf(sub[s].results)

\* C1 witness: 3 files, only file #2 failed, answered success with 2 URLs
C1_Witness ==
  \E s \in Slots :
    /\ sub[s].ensure = "ensured" /\ sub[s].nfiles = 3
    /\ Len(sub[s].results) = 3
    /\ sub[s].results[1].ok /\ ~sub[s].results[2].ok /\ sub[s].results[3].ok
    /\ sub[s].resp.status = 200 /\ sub[s].resp.success
    /\ sub[s].resp.uploadedFileUrls = <<sub[s].results[1].url, sub[s].results[3].url>>
    /\ sub[s].results[1].url # sub[s].results[3].url

\* C2: when the folder ensure failed (probe failure other than 404, or failed
\* creation call) nothing is thrown to the handler: every file gets its turn
\* with 'Shared Documents' as target, and the URLs of the uploads that
\* succeeded are returned
C2_FallbackToDefaultFolder ==
  \A s \in Slots :
    sub[s].ensure = "failed" =>
      /\ sub[s].folder = defaultFolder
      /\ sub[s].urls = UrlsOf(sub[s].results)
      /\ \A i \in DOMAIN sub[s].urls : sub[s].urls[i].folder = defaultFolder
      /\ Count(sub[s].calls, "upload") =
           Cardinality({i \in DOMAIN sub[s].results : sub[s].results[i].why # "TypeError"})
           + (IF sub[s].pc = "upload" THEN 1 ELSE 0)
      /\ sub[s].pc \in {"upload", "save_site", "lists", "item", "done"}
      /\ sub[s].pc # "upload" => Len(sub[s].results) = sub[s].nfiles /\ ReachedSave(s)
      /\ sub[s].resp.status = 200 =>
           sub[s].resp.uploadedFileUrls = UrlsOf(sub[s].results)

\* C2 witness: the creation call failed, the files went to the default folder,
\* one upload failed and one succeeded, and the submission was answered
C2_Witness ==
  \E s \in Slots :
    /\ sub[s].ensure = "failed" /\ Count(sub[s].calls, "create") = 1
    /\ sub[s].nfiles = 2 /\ Len(sub[s].urls) = 1
    /\ sub[s].resp.status = 200

\* C3: a submission with 4 or more files issues no network call at all
C3_TooManyFilesNoCall ==
  \A s \in Slots : sub[s].nfiles > MaxFiles => sub[s].calls = <<>>

ValidationErrors ==
  {"Province is required", "Maximum of 3 files allowed per submission"}

\* C4: a failed submission is answered 400 exactly when it failed validation
\* (province missing, more than 3 files) and 500 when a downstream step failed;
\* a submission refused for its number of files is never answered 500
C4_StatusCodes ==
  \A s \in Slots :
    (Responded(s) /\ ~sub[s].resp.success) =>
      /\ sub[s].resp.status \in {400, 500}
      /\ sub[s].resp.status = 400 <=> sub[s].resp.error \in ValidationErrors

\* C5: a submission without the province field is answered 400 'Province is
\* required' in the step that receives it, and that step leaves the in-memory
\* counter and counter.json as they were
C5_MissingProvince ==
  [][\A s \in Slots :
       (sub'[s] # sub[s] /\ sub'[s].pc # "idle" /\ sub'[s].province = NoValue) =>
         /\ sub'[s].resp = [status |-> 400, success |-> FALSE,
                            error |-> "Province is required"]
         /\ sub'[s].calls = <<>>
         /\ lastReferenceNumber' = lastReferenceNumber
         /\ counterFile' = counterFile
         /\ handedOut' = handedOut]_vars

\* C5 witness: a request without province was refused after numbers had been
\* handed out, and the counter stands where those left it
C5_Witness ==
  \E s \in Slots :
    /\ sub[s].province = NoValue /\ sub[s].resp.status = 400
    /\ Len(handedOut) = 2
    /\ counterFile = Stored(lastReferenceNumber)

\* C6: a submission that is refused or ends with success: false has consumed
\* no reference number
C6_OnlyAcceptedConsume ==
  \A s \in Slots :
    (Responded(s) /\ ~sub[s].resp.success) => sub[s].referenceNumber = <<>>

\* C7: the numbers handed out, restarts included, are consecutive integers
C7_GapFreeAcrossRestarts ==
  \A i \in 1..(Len(handedOut) - 1) : handedOut[i + 1][2] = handedOut[i][2] + 1

\* C8: whenever a number is handed out, counter.json holds that number
C8_PersistedBeforeReturn ==
  [][handedOut' # handedOut => counterFile' = Stored(lastReferenceNumber')]_vars

\* the counter the running process started from
StartValue == lastReferenceNumber - (Len(handedOut) - boot.len)

\* C9: within one process, whatever the interleaving of the requests in
\* flight, the numbers handed out are pairwise distinct and none is skipped;
\* every request holds the number handed out to it and no two hold the same
C9_AllocationSerialized ==
  /\ \A i \in (boot.len + 1)..Len(handedOut) :
       handedOut[i] = FormatRef(StartValue + (i - boot.len))
  /\ \A s \in Slots :
       sub[s].referenceNumber # <<>> =>
         \E i \in (boot.len + 1)..Len(handedOut) : handedOut[i] = sub[s].referenceNumber
  /\ \A s, u \in Slots :
       (s # u /\ sub[s].referenceNumber # <<>>) =>
         sub[s].referenceNumber # sub[u].referenceNumber

\* C9 witness: two submissions in flight at different awaits, a third number
\* handed out in between
C9_Witness ==
  /\ Len(handedOut) = 3
  /\ sub[1].pc = "upload" /\ sub[2].pc = "site"
  /\ sub[1].referenceNumber = handedOut[3] /\ sub[2].referenceNumber = handedOut[1]

C11_FolderEnsureIdempotent ==
  /\ \A s \in Slots :
       sub[s].probe = 200 =>
         /\ Count(sub[s].calls, "create") = 0
         /\ sub[s].ensure = "ensured"
         /\ sub[s].folder = <<"D1 Documents", Text(sub[s].builderName)>>
  /\ \A e \in ensured :
       /\ e.name \in drive
       /\ e.again =>
            /\ ~e.created
            /\ \A f \in ensured : f.name = e.name => f.path = e.path

\* C11 witness: the folder was created for one submission and found by the
\* probe of the next one
C11_Witness ==
  /\ \E e, f \in ensured :
       /\ e.name = f.name
       /\ e.created /\ ~e.again
       /\ ~f.created /\ f.again
  /\ sub[1].probe = 200 /\ sub[1].resp.status = 200

\* C12: when the probe fails with a status other than 404, createFolder issues
\* no creation call and throws the error, which processFileUploads catches
C12_ProbeFailurePropagates ==
  \A s \in Slots :
    sub[s].probe \notin {0, 200, 404} =>
      /\ Count(sub[s].calls, "create") = 0
      /\ sub[s].created = <<>>
      /\ sub[s].ensure = "failed"
      /\ "probe" \in sub[s].failed

\* C12 witness: the probe was answered 403 and the submission went on to its end
C12_Witness ==
  \E s \in Slots :
    /\ sub[s].probe = 403 /\ sub[s].nfiles = 2
    /\ Count(sub[s].calls, "upload") = 2
    /\ Responded(s)

\* C13: after a 404 probe exactly one creation call is issued, and the path
\* createFolder returns is the one of the folder that call produced (the
\* renamed sibling when the library renamed it); the files go into that folder
C13_ReturnsCreatedPath ==
  \A s \in Slots :
    sub[s].created # <<>> =>
      /\ sub[s].probe = 404
      /\ Count(sub[s].calls, "create") = 1
      /\ sub[s].folder = <<"D1 Documents", sub[s].created>>
      /\ \A i \in DOMAIN sub[s].urls : sub[s].urls[i].folder = <<"D1 Documents", sub[s].created>>

NineProvinces ==
  {"Eastern Cape", "Free State", "Gauteng", "KwaZulu Natal", "Limpopo",
   "Mpumalanga", "North West", "Northern Cape", "Western Cape"}

\* the value of a configuration key is there and not empty
IsSet(k) == k \in DOMAIN env /\ env[k] \notin {"", NoValue}

\* C14: the step in which a request resolves its province's configuration
\* goes on to the site lookup, with a non-empty site URL and list name taken
\* from the two keys of the province, when the province is one of the nine and
\* both keys are set; it fails the request without a Graph call when a key of
\* a recognized province is absent or empty and for every other string; and it
\* leaves the environment, the counter and counter.json as they were
C14_ConfigResolution ==
  [][\A s \in Slots :
       (sub'[s].session = "acquired" /\ sub[s].session # "acquired") =>
         LET p == sub'[s].province
             cfg == getSharePointConfig(p)
         IN /\ env' = env
            /\ lastReferenceNumber' = lastReferenceNumber
            /\ counterFile' = counterFile
            /\ IF /\ p \in NineProvinces
                  /\ IsSet(SiteKey(PROVINCE_MAPPING[p].site))
                  /\ IsSet(ListKey(PROVINCE_MAPPING[p].list))
               THEN /\ cfg.ok
                    /\ cfg.siteUrl = env[SiteKey(PROVINCE_MAPPING[p].site)]
                    /\ cfg.listName = env[ListKey(PROVINCE_MAPPING[p].list)]
                    /\ cfg.siteUrl # "" /\ cfg.listName # ""
                    /\ sub'[s].calls = <<"token", "site">>
                    /\ ~Responded(s)'
               ELSE /\ ~cfg.ok
                    /\ sub'[s].calls = <<"token">>
                    /\ sub'[s].resp = [status |-> 500, success |-> FALSE, error |-> cfg.error]]_vars

\* C14 witness: under a configuration with Western Cape's list name empty, a
\* submission for Gauteng got as far as its folder and a later one for Western
\* Cape was refused
C14_Witness ==
  \E s \in Slots :
    /\ env = PartialEnv
    /\ ensured # {}
    /\ sub[s].province = "Western Cape"
    /\ sub[s].session = "acquired" /\ sub[s].resp.status = 500

\* the key the deployed copy of the auth module reads the tenant from
TenantKey == IF authModule = "config/auth.js" THEN "SHAREPOINT_TENANT_ID" ELSE "TENANT_ID"

\* C15: getGraphClient fails when the tenant id, the client id or the client
\* secret is missing, when the token endpoint answers with a non-success
\* status, and when the token returned is empty; a submission whose
\* acquisition failed has issued no Graph call, uploaded no file, created no
\* item and is answered 500
C15_AcquisitionFails ==
  \A s \in Slots :
    /\ (sub[s].referenceNumber # <<>> /\ sub[s].pc # "token"
          /\ \E k \in {TenantKey, "SHAREPOINT_CLIENT_ID", "SHAREPOINT_CLIENT_SECRET"} :
               ~IsSet(Credential(k)))
         => sub[s].session = "failed"
    /\ "token" \in sub[s].failed => sub[s].session = "failed"
    /\ sub[s].session = "acquired" => sub[s].bearer # ""
    /\ sub[s].session = "failed" =>
         /\ \A i \in DOMAIN sub[s].calls : sub[s].calls[i] = "token"
         /\ sub[s].results = <<>> /\ sub[s].item = <<>>
         /\ sub[s].resp.status = 500 /\ ~sub[s].resp.success

\* C16: the list is selected by its internal name, compared exactly with the
\* configured list name; the name a list is displayed under and names that
\* differ in case do not count; when none matches the submission fails with an
\* error that names the internal names received, and no item is posted
C16_ExactInternalName ==
  \A s \in Slots :
    sub[s].lists # <<>> =>
      LET want == env[ListKey(PROVINCE_MAPPING[sub[s].province].list)]
          lists == sub[s].lists
      IN IF \E i \in DOMAIN lists : lists[i].name = want
         THEN /\ Count(sub[s].calls, "item") = 1
              /\ \E i \in DOMAIN lists : lists[i].name = want /\ lists[i].id = sub[s].listId
         ELSE /\ Count(sub[s].calls, "item") = 0
              /\ sub[s].listId = ""
              /\ sub[s].resp.status = 500
              /\ sub[s].resp.error = <<"List not found", [i \in DOMAIN lists |-> lists[i].name]>>

\* C16 witness: the site has a list displayed under the configured name whose
\* internal name differs in case, and the submission was refused after its
\* uploads
C16_Witness ==
  \E s \in Slots :
    /\ Len(sub[s].lists) = 1
    /\ sub[s].lists[1].displayName = "GautengBuilders"
    /\ sub[s].lists[1].name = "gautengbuilders"
    /\ Len(sub[s].urls) = 2
    /\ sub[s].resp.status = 500

\* C17: the item has an Attachments field exactly when at least one file was
\* uploaded, its value being the URLs of the response in the same order, joined
\* into one string; its ReferenceNumber is the referenceNumber of the response
C17_ItemFields ==
  \A s \in Slots :
    sub[s].item # <<>> =>
      /\ "Attachments" \in DOMAIN sub[s].item <=> Len(sub[s].urls) > 0
      /\ "Attachments" \in DOMAIN sub[s].item =>
           /\ [i \in DOMAIN sub[s].item.Attachments |-> sub[s].item.Attachments[i].url]
                = sub[s].urls
           /\ \A i \in DOMAIN sub[s].item.Attachments :
                sub[s].item.Attachments[i].sep = (IF i = 1 THEN "" ELSE ", ")
      /\ sub[s].item.ReferenceNumber = sub[s].referenceNumber
      /\ sub[s].resp.status = 200 =>
           /\ sub[s].resp.uploadedFileUrls = sub[s].urls
           /\ sub[s].resp.referenceNumber = sub[s].item.ReferenceNumber

\* C17 witness: a submission answered with success whose item carries two URLs
C17_Witness ==
  \E s \in Slots :
    /\ sub[s].resp.status = 200
    /\ Len(sub[s].resp.uploadedFileUrls) = 2 /\ sub[s].nfiles = 3
    /\ Len(sub[s].item.Attachments) = 2

\* the calls of a request before its i-th
Before(s, i) == SubSeq(sub[s].calls, 1, i - 1)

\* C18: the steps of a submission come in the order allocation, session, site,
\* folder and uploads, item: the token is requested first and with the number
\* allocated, no folder or upload call is issued before a site lookup has
\* returned, and the lists are asked for and the item is posted only after
\* every file has had its turn and no folder or upload call follows them
C18_StepOrder ==
  \A s \in Slots :
    /\ sub[s].calls # <<>> =>
         /\ sub[s].calls[1] = "token"
         /\ \E i \in DOMAIN handedOut : handedOut[i] = sub[s].referenceNumber
    /\ \A i \in DOMAIN sub[s].calls :
         LET c == sub[s].calls[i]
         IN /\ c = "site" => Count(Before(s, i), "token") = 1
            /\ c \in {"probe", "create", "upload"} =>
                 /\ Count(Before(s, i), "site") = 2
                 /\ Count(Before(s, i), "lists") = 0
                 /\ Count(Before(s, i), "item") = 0
            /\ c = "create" => Before(s, i)[i - 1] = "probe"
            /\ c = "lists" =>
                 /\ Count(Before(s, i), "site") = 3
                 /\ Len(sub[s].results) = sub[s].nfiles
            /\ c = "item" => Before(s, i)[i - 1] = "lists"

\* C18 witness: a submission with three files went through all of its steps
C18_Witness ==
  \E s \in Slots :
    /\ sub[s].calls = <<"token", "site", "site", "probe", "create",
                        "upload", "upload", "upload", "site", "lists", "item">>
    /\ sub[s].resp.status = 200

\* C19: every step of GET /api/health leaves the counter and counter.json as
\* they were, and its answer is always a success status: a failure of the
\* session acquisition or of the site lookup for 'Gauteng' is reported in the
\* body
C19_HealthNeverFails ==
  [][health' # health =>
       /\ lastReferenceNumber' = lastReferenceNumber
       /\ counterFile' = counterFile
       /\ handedOut' = handedOut
       /\ health'.pc = "done" =>
            /\ health'.resp.status = 200
            /\ (health'.session = "failed" \/ health'.failed # {}) =>
                 health'.resp.sharepointStatus[1] = "SharePoint connection failed: "]_vars

\* C19 witness: the health check answered 200 with a failed acquisition in its
\* body after a number had been handed out
C19_Witness ==
  /\ health.pc = "done" /\ health.session = "failed"
  /\ health.resp.status = 200
  /\ Len(health.resp.sharepointStatus) = 2
  /\ Len(handedOut) >= 1

\* what fails a submission without a remote call having failed: a province
\* without configuration, too many files, no list of the configured name
LocalFailure(s) ==
  \/ ~getSharePointConfig(sub[s].province).ok
  \/ sub[s].nfiles > 3
  \/ sub[s].lists # <<>> /\ sub[s].listId = ""

\* C20: nothing is retried: in one submission the token, the folder probe, the
\* folder creation, the lists and the item are requested at most once and each
\* file is uploaded at most once; a failed token request, site lookup, list
\* lookup or item post ends the submission with a failure, and a submission
\* is never failed by an upload
C20_NoRetry ==
  \A s \in Slots :
    /\ \A c \in {"token", "probe", "create", "lists", "item"} : Count(sub[s].calls, c) <= 1
    /\ Count(sub[s].calls, "upload") <= sub[s].nfiles
    /\ Count(sub[s].calls, "upload") <=
         Len(sub[s].results) + (IF sub[s].pc = "upload" THEN 1 ELSE 0)
    /\ sub[s].failed \cap {"token", "site", "lists", "item"} # {} =>
         /\ sub[s].pc = "done"
         /\ sub[s].resp.status = 500 /\ ~sub[s].resp.success
    /\ (Responded(s) /\ sub[s].resp.status = 500
          /\ sub[s].failed \cap {"token", "site", "lists", "item"} = {}) =>
         LocalFailure(s)

\* C20 witness: one upload of three failed, nothing was asked twice and the
\* submission was answered with success
C20_Witness ==
  \E s \in Slots :
    /\ sub[s].failed = {"upload"}
    /\ Count(sub[s].calls, "upload") = 3
    /\ sub[s].resp.status = 200 /\ sub[s].resp.success

\* C21: no two files stored in the same folder, of one submission or of two,
\* are stored under the same name (the clock may stand still between two
\* uploads), so no upload overwrites a file stored before
C21_NoNameCollision ==
  \A s, u \in Slots :
    \A i \in DOMAIN sub[s].results, j \in DOMAIN sub[u].results :
      (<<s, i>> # <<u, j>> /\ sub[s].results[i].ok /\ sub[u].results[j].ok) =>
        sub[s].results[i].url # sub[u].results[j].url

\* C22: the folder ensured for a submission is named by the sanitized builder
\* name (other characters than letters and digits replaced by an underscore,
\* lower-cased)
C22_FolderBySanitizedName ==
  \A s \in Slots :
    sub[s].ensure = "ensured" =>
      sub[s].folder = <<"D1 Documents", Sanitize(Text(sub[s].builderName))>>

\* C28: a submission with 1 to 3 files in which every remote call succeeded
\* returns exactly as many URLs as it had files, whatever text fields it
\* carried, builderName left out included
C28_OneUrlPerFile ==
  \A s \in Slots :
    (/\ sub[s].nfiles \in 1..3
     /\ sub[s].failed = {}
     /\ sub[s].resp.status = 200) =>
      Len(sub[s].resp.uploadedFileUrls) = sub[s].nfiles

\* C23: when two submissions for the same builder both get 404 from the probe
\* before either creation call is served, the race fails neither folder
\* ensure: the library never refuses the second creation for the name being
\* taken but makes a sibling, a submission whose creation call was served has
\* its folder ensured and goes on to its uploads, and the fallback is taken
\* only when the creation call itself failed
C23_RaceIsBenign ==
  \A s \in Slots :
    /\ "conflict" \notin sub[s].failed
    /\ sub[s].created # <<>> =>
         /\ sub[s].created \in drive
         /\ sub[s].ensure = "ensured"
         /\ sub[s].folder # defaultFolder
         /\ sub[s].pc \in {"upload", "save_site", "lists", "item", "done"}
         /\ \A u \in Slots \ {s} : sub[u].created # sub[s].created
    /\ (sub[s].probe = 404 /\ sub[s].ensure = "failed") => "create" \in sub[s].failed

\* C23 witness: both probes were answered 404, both creation calls were served,
\* the second under a sibling name, and both submissions uploaded their file
\* and were answered with success
C23_Witness ==
  /\ sub[1].probe = 404 /\ sub[2].probe = 404
  /\ sub[1].created = AcmeCo /\ sub[2].created = AcmeCo \o <<" ", "1">>
  /\ sub[1].ensure = "ensured" /\ sub[2].ensure = "ensured"
  /\ Len(sub[1].urls) = 1 /\ Len(sub[2].urls) = 1
  /\ sub[1].resp.status = 200 /\ sub[2].resp.status = 200

\* C24: two server processes that loaded the same counter record do not
\* coordinate: each hands out the numbers that follow the loaded value whatever
\* the other does, so once both have allocated they have handed out the same
\* number, and a value written to the record is the counter of one of them,
\* lower than the loaded value plus the allocations made
Loaded == initializeCounter(boot.record)
C24_ProcessesUncoordinated ==
  /\ \A i \in DOMAIN handedOut : handedOut[i] = FormatRef(Loaded + i)
  /\ \A i \in DOMAIN peer.handedOut : peer.handedOut[i] = FormatRef(Loaded + i)
  /\ (handedOut # <<>> /\ peer.handedOut # <<>>) =>
       /\ handedOut[1] = peer.handedOut[1]
       /\ (counterFile.kind = "value" /\ counterFile # boot.record) =>
            /\ counterFile.value \in {Loaded + i : i \in 1..MaxAlloc}
            /\ counterFile.value < Loaded + Len(handedOut) + Len(peer.handedOut)

\* C24 witness: both processes loaded 10001 and both handed out NHBRC 10002
\* and 10003; after four allocations the record holds 10003
C24_Witness ==
  /\ boot.record = Stored(Seed + 1)
  /\ handedOut = <<FormatRef(Seed + 2), FormatRef(Seed + 3)>>
  /\ peer.handedOut = handedOut
  /\ counterFile = Stored(Seed + 3)

\* C25: processFileUploads attempts every file once: no more upload calls,
\* outcomes or URLs than files, the i-th outcome being that of the i-th file;
\* when the loop is over every file has its outcome; every URL lies in the one
\* folder the loop ran in, so no file is uploaded both into the builder's
\* folder and into the default folder; and the fallback loop runs only when
\* the probe or the creation call failed
C25_EachFileOnce ==
  \A s \in Slots :
    LET r == sub[s] IN
    /\ Count(r.calls, "upload") <= r.nfiles
    /\ Len(r.results) <= r.nfiles
    /\ r.urls = UrlsOf(r.results)
    /\ \A i \in DOMAIN r.results :
         r.results[i].ok =>
           /\ r.results[i].url.folder = cleanFolderPath(r.folder)
           /\ r.results[i].url.name.ext = ExtOf(Files(r.nfiles)[i])
    /\ (AfterUploads(s) /\ r.ensure # "none") =>
         /\ Len(r.results) = r.nfiles
         /\ r.builderName # Undefined => Count(r.calls, "upload") = r.nfiles
    /\ r.ensure = "failed" =>
         /\ r.failed \cap {"probe", "create"} # {}
         /\ r.folder = defaultFolder

\* C25 witness: in the builder's folder the first of two uploads failed and
\* the second succeeded; two upload calls were made, one URL was returned and
\* the fallback was not taken
C25_Witness ==
  /\ sub[1].nfiles = 2 /\ sub[1].ensure = "ensured"
  /\ Len(sub[1].results) = 2
  /\ ~sub[1].results[1].ok /\ sub[1].results[2].ok
  /\ Count(sub[1].calls, "upload") = 2
  /\ sub[1].resp.status = 200
  /\ Len(sub[1].resp.uploadedFileUrls) = 1

\* C26: whatever the body carries under the names referenceNumber and
\* uploadedFileUrls, the uploaded file names, the list item and the response
\* carry the number the server allocated for the submission and the URLs its
\* uploads returned
C26_ServerValuesOnly ==
  \A s \in Slots :
    LET r == sub[s] IN
    /\ r.referenceNumber # <<>> =>
         /\ r.referenceNumber \in Range(handedOut)
         /\ r.referenceNumber # ForgedRef
    /\ r.pending # <<>> => r.pending.referenceNumber = r.referenceNumber
    /\ \A i \in DOMAIN r.urls :
         /\ r.urls[i].name.referenceNumber = r.referenceNumber
         /\ r.urls[i] # ForgedUrls[1]
    /\ r.item # <<>> =>
         /\ r.item.ReferenceNumber = r.referenceNumber
         /\ IF r.urls = <<>> THEN "Attachments" \notin DOMAIN r.item
            ELSE r.item.Attachments = Join(r.urls)
    /\ r.resp.status = 200 =>
         /\ r.resp.referenceNumber = r.referenceNumber
         /\ r.resp.uploadedFileUrls = r.urls

\* C26 witness: a body carrying both fields, one file uploaded, the item
\* written and the submission answered with the allocated number and the
\* URL of the upload
C26_Witness ==
  /\ sub[1].body = [referenceNumber |-> ForgedRef, uploadedFileUrls |-> ForgedUrls]
  /\ sub[1].nfiles = 1 /\ Len(sub[1].urls) = 1
  /\ sub[1].item # <<>>
  /\ sub[1].item.ReferenceNumber = handedOut[Len(handedOut)]
  /\ sub[1].resp.status = 200

\* C27: a submission answered with success has made one list item, and the
\* item carries the reference number of the answer; a submission answered 400
\* or 500 has made none and posted at most once, while the files it uploaded
\* before the failure stay uploaded: no call of the handler removes them
C27_ItemIffSuccess ==
  \A s \in Slots :
    LET r == sub[s] IN
    /\ Len(r.items) <= 1
    /\ Count(r.calls, "item") <= 1
    /\ r.resp.status = 200 =>
         /\ r.resp.success
         /\ Len(r.items) = 1
         /\ r.items[1].ReferenceNumber = r.resp.referenceNumber
         /\ r.items[1] = r.item
    /\ r.resp.status \in {400, 500} =>
         /\ ~r.resp.success
         /\ r.items = <<>>
    /\ r.items # <<>> => r.resp.status = 200
    /\ r.urls = UrlsOf(r.results)
    /\ Range(r.calls) \subseteq {"token", "site", "probe", "create", "upload", "lists", "item"}

\* C27 witness: two files were uploaded, the post of the item failed, and the
\* submission was answered 500 with no item made
C27_Witness ==
  /\ sub[1].resp.status = 500
  /\ sub[1].failed = {"item"}
  /\ Len(sub[1].urls) = 2
  /\ sub[1].items = <<>>

\* C29: a submission without files makes no probe, no creation and no upload
\* call and no folder is ensured for it; no URL is returned, the item is built
\* without an Attachments field, and unless one of its remaining steps fails
\* the submission is answered with success and an empty URL list
C29_ZeroFiles ==
  \A s \in Slots :
    LET r == sub[s] IN
    (r.pc # "idle" /\ r.nfiles = 0) =>
      /\ Range(r.calls) \cap {"probe", "create", "upload"} = {}
      /\ r.ensure = "none" /\ r.probe = 0 /\ r.created = <<>>
      /\ r.urls = <<>> /\ r.results = <<>>
      /\ r.item # <<>> => "Attachments" \notin DOMAIN r.item
      /\ r.resp.status = 200 => r.resp.uploadedFileUrls = <<>>
      /\ (r.pc = "done" /\ ~provinceMissing(r.province) /\ r.failed = {} /\ ~LocalFailure(s)) =>
           r.resp.status = 200

\* C29 witness: a submission without files answered with success after the
\* token, three site lookups, the lists and the item post, the item having
\* Title, ReferenceNumber and Province only
C29_Witness ==
  /\ sub[1].nfiles = 0
  /\ sub[1].resp.status = 200
  /\ sub[1].calls = <<"token", "site", "site", "site", "lists", "item">>
  /\ DOMAIN sub[1].item = {"Title", "ReferenceNumber", "Province"}
  /\ Len(sub[1].items) = 1

\* C30: a submission is answered once: its handler has ended exactly when an
\* answer of status 200, 400 or 500 was sent, and an answer sent is never
\* followed by another; a submission waiting for a remote call has no answer,
\* since nothing but the call's return or failure moves it; and a submission
\* whose remote calls all return or fail is answered in the end, whether or
\* not the calls of the other submission return
InFlight(s) == sub[s].pc \notin {"idle", "done"}
C30_OneResponse ==
  /\ [](\A s \in Slots :
          /\ sub[s].pc = "done" <=> Responded(s)
          /\ Responded(s) => sub[s].resp.status \in {200, 400, 500}
          /\ InFlight(s) => sub[s].calls # <<>>)
  /\ [][\A s \in Slots :
          /\ Responded(s) => sub'[s] = sub[s]
          /\ (InFlight(s) /\ sub'[s] # sub[s]) =>
               Len(sub'[s].calls) = Len(sub[s].calls) + 1 \/ sub'[s].pc = "done"]_vars
  /\ (sub[2].pc # "idle") ~> Responded(2)

\* C30 witness: the first submission still waits for its first call while the
\* second, which was made after it, has been answered with success
C30_Witness ==
  /\ sub[1].pc = "token" /\ sub[1].resp = NoResponse
  /\ sub[1].referenceNumber = FormatRef(Seed + 1)
  /\ sub[2].referenceNumber = FormatRef(Seed + 2)
  /\ sub[2].resp.status = 200
====
